---- MODULE Spec2Model ----
(***************************************************************************)
(* A model of secret_santa.py: the configuration, create_santas, the       *)
(* greedy assignment of assign_santees under the repeat_if_failed retry    *)
(* decorator, and the confirm-and-email loop of main.                      *)
(*                                                                         *)
(* A Python str is a sequence of one-character strings.  A SecretSanta is  *)
(* a record; a reference to a SecretSanta of the deep-copied pool is the   *)
(* position of the Santa it is a copy of (0 is None).                      *)
(***************************************************************************)
EXTENDS Integers, Sequences, FiniteSets, TLC

VARIABLES
    config,       \* the Config: PARTICIPANTS and DONT_PAIR, as read from the YAML file
    send_emails,  \* args.send_emails
    pc,           \* where the program is
    santas,       \* the list create_santas builds, assign_santees mutates and,
                  \* once create_santas has returned it, main holds
    santees,      \* the pool of assign_santees: the deep copy of santas, shrinking
    idx,          \* position of "for santa in santas" inside assign_santees
    attempts,     \* iterations of "for _ in range(tries)" started so far
    ex,           \* the variable ex of inner_wrapper: the last exception caught
    raised,       \* the exception that left main, if any
    printed,      \* the lines main has printed in the current iteration of its loop
    reply,        \* what raw_input returned in the current iteration, "" before it
    emailed       \* the emails sent so far, in order

vars == <<config, send_emails, pc, santas, santees, idx, attempts, ex, raised,
          printed, reply, emailed>>

----------------------------------------------------------------------------
(* Bounds of the model *)

\* largest number of PARTICIPANTS entries in a configuration
MaxParticipants == 4

\* largest number of DONT_PAIR groups in a configuration
MaxGroups == 2

----------------------------------------------------------------------------
(* Strings *)

Min(S) == CHOOSE x \in S : \A y \in S : x <= y

\* Positions of character ch in s
Positions(s, ch) == {i \in 1..Len(s) : s[i] = ch}

\* str.find: first position of ch in s at or after position from, 0 if none
Find(s, ch, from) ==
    LET P == {i \in Positions(s, ch) : i >= from}
    IN  IF P = {} THEN 0 ELSE Min(P)

\* str.strip(): drop leading and trailing whitespace
RECURSIVE lstrip(_)
lstrip(s) == IF s # <<>> /\ Head(s) = " " THEN lstrip(Tail(s)) ELSE s

RECURSIVE rstrip(_)
rstrip(s) ==
    IF s # <<>> /\ s[Len(s)] = " " THEN rstrip(SubSeq(s, 1, Len(s) - 1)) ELSE s

strip(s) == lstrip(rstrip(s))

\* str.split(','): the pieces between the separators, empty pieces included
RECURSIVE split(_, _)
split(s, sep) ==
    LET i == Find(s, sep, 1)
    IN  IF i = 0 THEN <<s>>
        ELSE <<SubSeq(s, 1, i - 1)>> \o split(SubSeq(s, i + 1, Len(s)), sep)

Range(s) == {s[i] : i \in 1..Len(s)}

----------------------------------------------------------------------------
(* Exceptions *)

NoException == [type |-> "None"]

SecretSantaException(message, arg) ==
    [type |-> "SecretSantaException", message |-> message, arg |-> arg]

NotEnoughParticipants ==
    SecretSantaException("Not enough participants specified", <<>>)

CouldNotParse(name_and_email) ==
    SecretSantaException("Could not parse name/email: %s", name_and_email)

CouldNotFindSantee(name) ==
    SecretSantaException("Could not find santee for %s", name)

----------------------------------------------------------------------------
(* Config *)

\* Config.parse_name_and_email: NAME_AND_EMAIL_REGEX ([^<]*)<([^>]*)> matched
\* at the start of the string; both groups stripped.  ok is FALSE when the
\* regular expression does not match.
parse_name_and_email(name_and_email) ==
    LET lt == Find(name_and_email, "<", 1)
        gt == IF lt = 0 THEN 0 ELSE Find(name_and_email, ">", lt + 1)
    IN  IF lt = 0 \/ gt = 0
        THEN [ok |-> FALSE, name |-> <<>>, email |-> <<>>]
        ELSE [ok |-> TRUE,
              name |-> strip(SubSeq(name_and_email, 1, lt - 1)),
              email |-> strip(SubSeq(name_and_email, lt + 1, gt - 1))]

\* the names used in the configurations
Alice == <<"A">>
Bob   == <<"B">>
Carol == <<"C">>
Dave  == <<"D">>
Erin  == <<"E">>
Frank == <<"F">>

\* PARTICIPANTS entries of the form 'name <email>', with the spacing varied
Roster ==
    << <<"A", " ", "<", "a", ">">>,
       <<"B", "<", "b", ">">>,
       <<" ", "C", " ", "<", "c", ">">>,
       <<"D", " ", "<", " ", "d", ">">>,
       <<"E", "<", "e", " ", ">", " ">>,
       <<"F", " ", " ", "<", "f", ">">> >>

\* a PARTICIPANTS list with an entry that has no <email>
Malformed == <<Roster[1], <<"B", " ", "b">> >>

\* a PARTICIPANTS list in which two names occur twice
Duplicated ==
    <<Roster[1], Roster[2], <<"A", "<", "c", ">">>, <<"B", " ", "<", "d", ">">> >>

ParticipantLists ==
    {SubSeq(Roster, 1, n) : n \in 0..MaxParticipants} \cup {Malformed, Duplicated}

\* DONT_PAIR groups: 'A, B', 'C ,D' and ' A,B,C'
Groups ==
    << <<"A", ",", " ", "B">>,
       <<"C", " ", ",", "D">>,
       <<" ", "A", ",", "B", ",", "C">> >>

\* the entries of Groups at the positions in S, in the order of Groups
RECURSIVE SubList(_, _)
SubList(S, i) ==
    IF i > Len(Groups) THEN <<>>
    ELSE (IF i \in S THEN <<Groups[i]>> ELSE <<>>) \o SubList(S, i + 1)

\* the sub-lists of Groups with at most MaxGroups entries
DontPairLists ==
    {SubList(S, 1) : S \in {T \in SUBSET (1..Len(Groups)) : Cardinality(T) <= MaxGroups}}

Configs == [PARTICIPANTS : ParticipantLists, DONT_PAIR : DontPairLists]

----------------------------------------------------------------------------
(* SecretSanta *)

\* a constructor that falls back to the Santa's own name only when no
\* invalid_matches are given
SecretSanta_or_self(name, email, invalid_matches) ==
    [name |-> name,
     email |-> email,
     invalid_matches |-> IF invalid_matches = <<>> THEN <<name>> ELSE invalid_matches,
     santee |-> 0]

\* a constructor that does not add the Santa's own name to invalid_matches
SecretSanta_noself(name, email, invalid_matches) ==
    [name |-> name,
     email |-> email,
     invalid_matches |-> invalid_matches,
     santee |-> 0]

\* SecretSanta.__init__
SecretSanta(name, email, invalid_matches) ==
    [name |-> name,
     email |-> email,
     invalid_matches |-> invalid_matches \o <<name>>,
     santee |-> 0]

\* the attribute name of the Santa a reference points to; the Santas of a
\* deep copy carry the names of the Santas they were copied from
NameOf(list, ref) == list[ref].name

\* a comprehension that also leaves out the entries some santee attribute
\* of the list still points to
RECURSIVE candidates_untaken(_, _, _)
candidates_untaken(self, pool, list) ==
    IF pool = <<>> THEN <<>>
    ELSE (IF /\ NameOf(list, Head(pool)) \notin Range(self.invalid_matches)
             /\ Head(pool) \notin {list[j].santee : j \in 1..Len(list)}
          THEN <<Head(pool)>> ELSE <<>>) \o candidates_untaken(self, Tail(pool), list)

\* a comprehension that keeps the whole pool, excluded names included
candidates_unfiltered(self, pool, list) == pool

\* a comprehension cut down to its first entry, as if the choice were not random
RECURSIVE candidates_first(_, _, _)
candidates_first(self, pool, list) ==
    IF pool = <<>> THEN <<>>
    ELSE IF NameOf(list, Head(pool)) \notin Range(self.invalid_matches)
         THEN <<Head(pool)>>
         ELSE candidates_first(self, Tail(pool), list)

\* SecretSanta.assign_santee, the list comprehension:
\* [s for s in santees if s.name not in self.invalid_matches]
RECURSIVE candidates(_, _, _)
candidates(self, pool, list) ==
    IF pool = <<>> THEN <<>>
    ELSE (IF NameOf(list, Head(pool)) \notin Range(self.invalid_matches)
          THEN <<Head(pool)>> ELSE <<>>) \o candidates(self, Tail(pool), list)

\* a remove that drops the first entry, whatever x is
remove_first(list, x) == Tail(list)

\* a remove that drops the last entry, whatever x is
remove_last(list, x) == SubSeq(list, 1, Len(list) - 1)

\* a remove that leaves the list as it is
remove_kept(list, x) == list

\* list.remove(x): drop the first entry equal to x
remove(list, x) ==
    LET i == Find(list, x, 1)
    IN  SubSeq(list, 1, i - 1) \o SubSeq(list, i + 1, Len(list))

\* a pool that leaves out the Santas some santee attribute already points to
deepcopy_unassigned(list) ==
    LET taken == {list[j].santee : j \in 1..Len(list)}
        RECURSIVE from(_)
        from(i) == IF i > Len(list) THEN <<>>
                   ELSE (IF i \in taken THEN <<>> ELSE <<i>>) \o from(i + 1)
    IN  from(1)

\* copy.deepcopy(santas): one fresh Santa per Santa, in the same order
deepcopy(list) == [i \in 1..Len(list) |-> i]

\* SecretSanta.__str__, as the pair (name, santee name or the empty string)
str(list, i) ==
    <<list[i].name, IF list[i].santee # 0 THEN NameOf(list, list[i].santee) ELSE <<>> >>

----------------------------------------------------------------------------
(* create_santas *)

\* the names of a group without the strip
names_of_unstripped(pair) == split(pair, ",")

\* names = [n.strip() for n in pair.split(',')]
names_of(pair) ==
    LET parts == split(pair, ",") IN [i \in 1..Len(parts) |-> strip(parts[i])]

\* an expansion that only the first name of a group benefits from
RECURSIVE invalid_matches_of_first_name(_, _)
invalid_matches_of_first_name(name, dont_pair) ==
    IF dont_pair = <<>> THEN <<>>
    ELSE (IF name = names_of(Head(dont_pair))[1]
          THEN names_of(Head(dont_pair)) ELSE <<>>)
         \o invalid_matches_of_first_name(name, Tail(dont_pair))

\* the inner loop of create_santas over dont_pair:
\* invalid_matches.extend([p for p in names if name in names])
RECURSIVE invalid_matches_of(_, _)
invalid_matches_of(name, dont_pair) ==
    IF dont_pair = <<>> THEN <<>>
    ELSE (IF name \in Range(names_of(Head(dont_pair)))
          THEN names_of(Head(dont_pair)) ELSE <<>>)
         \o invalid_matches_of(name, Tail(dont_pair))

\* the outer loop of create_santas: one SecretSanta per participant
build_santas(cfg) ==
    [i \in 1..Len(cfg.PARTICIPANTS) |->
        LET p == parse_name_and_email(cfg.PARTICIPANTS[i])
        IN  SecretSanta(p.name, p.email, invalid_matches_of(p.name, cfg.DONT_PAIR))]

\* the participants parse_name_and_email raises on
unparsed(cfg) ==
    {i \in 1..Len(cfg.PARTICIPANTS) : ~parse_name_and_email(cfg.PARTICIPANTS[i]).ok}

----------------------------------------------------------------------------
(* The program *)

\* @repeat_if_failed(tries=100, ...)
tries == 100

\* the program starts on one of the given configurations
Start(configs) ==
    /\ config \in configs
    /\ send_emails \in BOOLEAN
    /\ pc = "main"
    /\ santas = <<>>
    /\ santees = <<>>
    /\ idx = 0
    /\ attempts = 0
    /\ ex = NoException
    /\ raised = NoException
    /\ printed = <<>>
    /\ reply = ""
    /\ emailed = <<>>

Init == Start(Configs)

\* a Config that only rejects an empty PARTICIPANTS
LoadConfig_one ==
    /\ pc = "main"
    /\ IF Len(config.PARTICIPANTS) < 1
       THEN /\ pc' = "error"
            /\ raised' = NotEnoughParticipants
       ELSE /\ pc' = "create_santas"
            /\ UNCHANGED raised
    /\ UNCHANGED <<config, send_emails, reply, santas, santees, idx, attempts, ex,
                   printed, emailed>>

\* main: config = Config(args.config_path)
LoadConfig ==
    /\ pc = "main"
    /\ IF Len(config.PARTICIPANTS) < 2
       THEN /\ pc' = "error"
            /\ raised' = NotEnoughParticipants
       ELSE /\ pc' = "create_santas"
            /\ UNCHANGED raised
    /\ UNCHANGED <<config, send_emails, reply, santas, santees, idx, attempts, ex,
                   printed, emailed>>

\* create_santas up to its call of assign_santees, which enters inner_wrapper;
\* main is in a new iteration of its loop, with nothing read from raw_input
CreateSantas ==
    /\ pc = "create_santas"
    /\ reply' = ""
    /\ IF unparsed(config) # {}
       THEN /\ pc' = "error"
            /\ raised' = CouldNotParse(config.PARTICIPANTS[Min(unparsed(config))])
            /\ UNCHANGED <<santas, attempts, ex>>
       ELSE /\ pc' = "inner_wrapper"
            /\ santas' = build_santas(config)
            /\ attempts' = 0
            /\ ex' = NoException
            /\ UNCHANGED raised
    /\ UNCHANGED <<config, send_emails, santees, idx, printed, emailed>>

\* an inner_wrapper whose loop runs once more than tries
BeginAttempt_extra ==
    /\ pc = "inner_wrapper"
    /\ attempts < tries + 1
    /\ attempts' = attempts + 1
    /\ santees' = deepcopy(santas)
    /\ idx' = 1
    /\ pc' = "assign_santees"
    /\ UNCHANGED <<config, send_emails, reply, santas, ex, raised, printed, emailed>>

\* inner_wrapper: the next iteration of "for _ in range(tries)" calls
\* assign_santees, which deep-copies santas into the pool
BeginAttempt ==
    /\ pc = "inner_wrapper"
    /\ attempts < tries
    /\ attempts' = attempts + 1
    /\ santees' = deepcopy(santas)
    /\ idx' = 1
    /\ pc' = "assign_santees"
    /\ UNCHANGED <<config, send_emails, reply, santas, ex, raised, printed, emailed>>

\* assign_santees, one iteration of "for santa in santas" that finds a
\* candidate: random.choice(candidates), then santees.remove(santa.santee)
AssignSantee ==
    /\ pc = "assign_santees"
    /\ idx <= Len(santas)
    /\ \E c \in Range(candidates(santas[idx], santees, santas)) :
          /\ santas' = [santas EXCEPT ![idx].santee = c]
          /\ santees' = remove(santees, c)
    /\ idx' = idx + 1
    /\ UNCHANGED <<config, send_emails, reply, pc, attempts, ex, raised,
                   printed, emailed>>

\* a dead end whose exception inner_wrapper does not catch
DeadEnd_uncaught ==
    /\ pc = "assign_santees"
    /\ idx <= Len(santas)
    /\ candidates(santas[idx], santees, santas) = <<>>
    /\ santas' = [santas EXCEPT ![idx].santee = 0]
    /\ raised' = CouldNotFindSantee(santas[idx].name)
    /\ pc' = "error"
    /\ UNCHANGED <<config, send_emails, reply, santees, idx, attempts, ex,
                   printed, emailed>>

\* a dead end without the raise: the loop goes on to the next Santa
DeadEnd_ignored ==
    /\ pc = "assign_santees"
    /\ idx <= Len(santas)
    /\ candidates(santas[idx], santees, santas) = <<>>
    /\ santas' = [santas EXCEPT ![idx].santee = 0]
    /\ idx' = idx + 1
    /\ UNCHANGED <<config, send_emails, reply, pc, santees, attempts, ex, raised,
                   printed, emailed>>

\* a dead end after which inner_wrapper keeps the exception of the first
\* failed attempt instead of the latest one
DeadEnd_first ==
    /\ pc = "assign_santees"
    /\ idx <= Len(santas)
    /\ candidates(santas[idx], santees, santas) = <<>>
    /\ santas' = [santas EXCEPT ![idx].santee = 0]
    /\ ex' = IF ex = NoException THEN CouldNotFindSantee(santas[idx].name) ELSE ex
    /\ pc' = "inner_wrapper"
    /\ UNCHANGED <<config, send_emails, reply, santees, idx, attempts, raised,
                   printed, emailed>>

\* assign_santees, an iteration that finds no candidate: santee is None and
\* the SecretSantaException is raised before santees.remove, so the pool and
\* the position of the loop are as the failing iteration found them;
\* inner_wrapper catches the exception as ex
DeadEnd ==
    /\ pc = "assign_santees"
    /\ idx <= Len(santas)
    /\ candidates(santas[idx], santees, santas) = <<>>
    /\ santas' = [santas EXCEPT ![idx].santee = 0]
    /\ ex' = CouldNotFindSantee(santas[idx].name)
    /\ pc' = "inner_wrapper"
    /\ UNCHANGED <<config, send_emails, reply, santees, idx, attempts, raised,
                   printed, emailed>>

\* an inner_wrapper that gives up after the first failed attempt
Reraise_early ==
    /\ pc = "inner_wrapper"
    /\ attempts >= 1
    /\ raised' = ex
    /\ pc' = "error"
    /\ UNCHANGED <<config, send_emails, reply, santas, santees, idx, attempts, ex,
                   printed, emailed>>

\* inner_wrapper after the last iteration: raise ex, which nothing catches
Reraise ==
    /\ pc = "inner_wrapper"
    /\ attempts >= tries
    /\ raised' = ex
    /\ pc' = "error"
    /\ UNCHANGED <<config, send_emails, reply, santas, santees, idx, attempts, ex,
                   printed, emailed>>

\* the loop of assign_santees ends: inner_wrapper and create_santas return,
\* main binds the list and prints it
ReturnSantas ==
    /\ pc = "assign_santees"
    /\ idx > Len(santas)
    /\ printed' = [i \in 1..Len(santas) |-> str(santas, i)]
    /\ santees' = <<>>
    /\ idx' = 0
    /\ pc' = "raw_input"
    /\ UNCHANGED <<config, send_emails, reply, santas, attempts, ex, raised, emailed>>

\* a main that leaves its loop whatever raw_input returns
Answer_any(line) ==
    /\ pc = "raw_input"
    /\ reply' = line
    /\ pc' = "send_emails"
    /\ UNCHANGED <<config, send_emails, santas, santees, idx, attempts, ex, raised,
                   printed, emailed>>

\* main: raw_input('Is this okay? [y/n]: ') returns line; 'y' leaves the
\* loop, anything else starts its next iteration
Answer(line) ==
    /\ pc = "raw_input"
    /\ reply' = line
    /\ IF line = "y"
       THEN /\ pc' = "send_emails"
            /\ UNCHANGED printed
       ELSE /\ pc' = "create_santas"
            /\ printed' = <<>>
    /\ UNCHANGED <<config, send_emails, santas, santees, idx, attempts, ex, raised,
                   emailed>>

\* SecretSanta.send_email: receiver, santa and santee of the message
send_email(list, i) ==
    [receiver |-> list[i].email,
     santa |-> list[i].name,
     santee |-> NameOf(list, list[i].santee)]

\* main: with args.send_emails, one email per Santa of the list, in order
SendEmails ==
    /\ pc = "send_emails"
    /\ send_emails
    /\ emailed' = [i \in 1..Len(santas) |-> send_email(santas, i)]
    /\ pc' = "exit"
    /\ UNCHANGED <<config, send_emails, reply, santas, santees, idx, attempts, ex, raised,
                   printed>>

\* main: without args.send_emails, nothing is sent
SkipEmails ==
    /\ pc = "send_emails"
    /\ ~send_emails
    /\ pc' = "exit"
    /\ UNCHANGED <<config, send_emails, reply, santas, santees, idx, attempts, ex, raised,
                   printed, emailed>>

Next ==
    \/ LoadConfig
    \/ CreateSantas
    \/ BeginAttempt
    \/ AssignSantee
    \/ DeadEnd
    \/ Reraise
    \/ ReturnSantas
    \/ \E line \in {"y", "n"} : Answer(line)
    \/ SendEmails
    \/ SkipEmails

Spec == Init /\ [][Next]_vars

\* the steps the interpreter takes by itself; only raw_input waits for the user
Step ==
    \/ LoadConfig
    \/ CreateSantas
    \/ BeginAttempt
    \/ AssignSantee
    \/ DeadEnd
    \/ Reraise
    \/ ReturnSantas
    \/ SendEmails
    \/ SkipEmails

\* the program is single-threaded and synchronous: it keeps running
FairSpec == Spec /\ WF_vars(Step)

----------------------------------------------------------------------------
(* Vocabulary of the properties *)

\* the names of a list of Santas
Names(list) == {list[i].name : i \in 1..Len(list)}

\* no two Santas of the list have the same name
UniqueNames(list) ==
    \A i, j \in 1..Len(list) : list[i].name = list[j].name => i = j

\* every Santa of the list has a santee
Complete(list) == \A i \in 1..Len(list) : list[i].santee \in 1..Len(list)

\* the name of the santee of the i-th Santa
Recipient(list, i) == NameOf(list, list[i].santee)

\* the santee of the Santa called name, in a complete list with unique names
RecipientOf(list, name) ==
    Recipient(list, CHOOSE i \in 1..Len(list) : list[i].name = name)

\* create_santas has returned its list to main, which holds it
Returned == pc \in {"raw_input", "send_emails", "exit"}

----------------------------------------------------------------------------
(* C1 *)

\* C1: whenever assign_santees returns successfully and the names are
\* unique, every participant has a recipient among the participants, no two
\* participants have the same recipient, and every participant is some
\* participant's recipient: name -> recipient name is a bijection.
C1_Bijection ==
    (Returned /\ UniqueNames(santas)) =>
        /\ Len(santas) = Len(config.PARTICIPANTS)
        /\ Complete(santas)
        /\ \A i, j \in 1..Len(santas) :
              Recipient(santas, i) = Recipient(santas, j) => i = j
        /\ {Recipient(santas, i) : i \in 1..Len(santas)} = Names(santas)

\* an assignment of four uniquely named participants was returned after a
\* failed attempt
C1_Witness ==
    /\ pc = "raw_input"
    /\ UniqueNames(santas)
    /\ Len(santas) = 4
    /\ attempts > 1

----------------------------------------------------------------------------
(* C2 *)

\* C2: whenever assign_santees returns successfully, no participant's
\* recipient is the participant itself, and no recipient's name is in the
\* participant's invalid_matches.
C2_NoExcludedRecipient ==
    Returned =>
        \A i \in 1..Len(santas) :
            /\ santas[i].santee \in 1..Len(santas)
            /\ santas[i].santee # i
            /\ Recipient(santas, i) # santas[i].name
            /\ Recipient(santas, i) \notin Range(santas[i].invalid_matches)

\* an assignment was returned for a configuration with a DONT_PAIR group
\* that names two of the participants
C2_Witness ==
    /\ pc = "raw_input"
    /\ \E i \in 1..Len(santas) :
          Cardinality(Range(santas[i].invalid_matches) \cap Names(santas)) > 1

----------------------------------------------------------------------------
(* C3 *)

\* the Santas from position i on can all be given distinct santees out of
\* free, none of them excluded
RECURSIVE Matchable(_, _, _)
Matchable(list, i, free) ==
    \/ i > Len(list)
    \/ \E c \in free :
          /\ NameOf(list, c) \notin Range(list[i].invalid_matches)
          /\ Matchable(list, i + 1, free \ {c})

\* some bijection of the Santas honours every invalid_matches
Feasible(list) == Matchable(list, 1, 1..Len(list))

\* assign_santees is running, or has raised, on Santas no bijection exists for
InfeasibleRun ==
    /\ pc \in {"inner_wrapper", "assign_santees", "error"}
    /\ santas # <<>>
    /\ ~Feasible(santas)

\* the configuration [Alice, Bob] with DONT_PAIR ['Alice, Bob']
TwoExcluded == [PARTICIPANTS |-> SubSeq(Roster, 1, 2), DONT_PAIR |-> <<Groups[1]>>]

\* the configuration [Alice, Bob, Carol, Dave] with DONT_PAIR ['Alice, Bob']
FourWithPair == [PARTICIPANTS |-> SubSeq(Roster, 1, 4), DONT_PAIR |-> <<Groups[1]>>]

\* the configurations create_santas builds Santas for that no bijection exists for
InfeasibleConfigs ==
    {c \in Configs : /\ Len(c.PARTICIPANTS) >= 2
                     /\ unparsed(c) = {}
                     /\ ~Feasible(build_santas(c))}

InitInfeasible == Start(InfeasibleConfigs \cup {FourWithPair})

\* the program started on one of the infeasible configurations, or on the
\* four with 'Alice, Bob', and running on by itself
InfeasibleSpec == InitInfeasible /\ [][Next]_vars /\ WF_vars(Step)

\* C3: when the exclusions admit no bijection, the run of assign_santees
\* never makes more than tries attempts, raises only after exactly tries
\* attempts, and does end by raising out of main.
C3_ExhaustsAfterTries ==
    /\ [](InfeasibleRun =>
            /\ attempts <= tries
            /\ (pc = "error" => attempts = tries /\ raised = ex /\ ex # NoException))
    /\ [](Returned => Feasible(santas))
    /\ (InfeasibleRun /\ pc = "inner_wrapper") ~> (pc = "error" /\ attempts = tries)

\* [Alice, Bob] with 'Alice, Bob' has ended in the exception after tries attempts
C3_Witness ==
    /\ config = TwoExcluded
    /\ pc = "error"
    /\ attempts = tries
    /\ raised = CouldNotFindSantee(Alice)

----------------------------------------------------------------------------
(* C4 *)

\* inner_wrapper has used up its tries and raised
Exhausted == pc = "error" /\ attempts = tries

\* e is the exception assign_santees raises at a dead end
IsDeadEnd(e) ==
    /\ e.type = "SecretSantaException"
    /\ e.message = "Could not find santee for %s"

\* e has an attribute holding a number of tries
CarriesTries(e) == "tries" \in DOMAIN e

\* the first Santa of the list without a santee
FirstUnassigned(list) == Min({i \in 1..Len(list) : list[i].santee = 0})

\* C4 as stated: the exception that reaches the caller on exhaustion is not a
\* dead-end exception and carries the number of tries, and no dead-end
\* exception ever reaches the caller.
C4_Original ==
    /\ ~IsDeadEnd(raised)
    /\ Exhausted => CarriesTries(raised)

\* C4 amended: on exhaustion the exception that reaches the caller is the
\* dead-end exception of the last attempt itself, naming the Santa that had
\* no candidate in that attempt and carrying no number of tries; a dead-end
\* exception reaches the caller only then, after tries attempts.
C4_LastDeadEndReraised ==
    /\ Exhausted =>
          /\ raised = ex
          /\ IsDeadEnd(raised)
          /\ ~CarriesTries(raised)
          /\ \E i \in 1..Len(santas) : santas[i].santee = 0
          /\ raised = CouldNotFindSantee(santas[FirstUnassigned(santas)].name)
    /\ IsDeadEnd(raised) => Exhausted
    /\ pc # "error" => raised = NoException

\* the retry bound was exhausted and the last attempt failed at Carol
C4_Witness ==
    /\ Exhausted
    /\ raised = CouldNotFindSantee(Carol)

----------------------------------------------------------------------------
(* C5 *)

\* assign_santees has just deep-copied the pool and is about to enter its loop
AttemptStart == pc = "assign_santees" /\ idx = 1

\* no Santa of the list has a santee
AllUnset(list) == \A i \in 1..Len(list) : list[i].santee = 0

\* the list is as a failed attempt leaves it: one Santa without a santee and
\* every Santa before it with one
LeftByFailure(list) ==
    \E k \in 1..Len(list) :
        /\ list[k].santee = 0
        /\ \A j \in 1..(k - 1) : list[j].santee # 0

\* C5 as stated: at the start of every retry attempt every recipient is
\* unset and the pool holds all participants, and after exhaustion no
\* recipient of a failed attempt is left for the caller.
C5_Original ==
    /\ (AttemptStart /\ attempts > 1) =>
          AllUnset(santas) /\ santees = [i \in 1..Len(santas) |-> i]
    /\ Exhausted => AllUnset(santas)

\* C5 amended: a failed attempt leaves its recipients on the Santas, up to
\* the Santa that had no candidate, at the start of the retry and after
\* exhaustion; at the start of every attempt the pool holds all participants,
\* during an attempt the Santas already processed hold distinct recipients
\* taken out of this attempt's pool, and a list left by a failed attempt is
\* never returned to main.
C5_FailedAttemptLeftInPlace ==
    /\ AttemptStart =>
          /\ santees = [i \in 1..Len(config.PARTICIPANTS) |-> i]
          /\ attempts > 1 => LeftByFailure(santas)
    /\ (pc = "inner_wrapper" /\ attempts >= 1) => LeftByFailure(santas)
    /\ Exhausted => LeftByFailure(santas)
    /\ pc = "assign_santees" =>
          /\ Len(santees) = Len(santas) - (idx - 1)
          /\ \A j \in 1..(idx - 1) :
                /\ santas[j].santee \in 1..Len(santas)
                /\ santas[j].santee \notin Range(santees)
                /\ \A k \in 1..(idx - 1) : santas[j].santee = santas[k].santee => j = k
    /\ Returned => ~LeftByFailure(santas)

\* a retry starts with the first two recipients of the failed attempt still set
C5_Witness ==
    /\ AttemptStart
    /\ attempts > 1
    /\ santees = [i \in 1..Len(santas) |-> i]
    /\ santas[1].santee # 0
    /\ santas[2].santee # 0

----------------------------------------------------------------------------
(* C6 *)

\* every list main holds, every printed line and every email names a
\* recipient for every participant, and an iteration that raises out of main
\* has printed and emailed nothing
EmittedComplete ==
    /\ Returned =>
          /\ Len(santas) = Len(config.PARTICIPANTS)
          /\ Complete(santas)
    /\ \A i \in 1..Len(printed) : printed[i][2] # <<>>
    /\ Len(printed) \in {0, Len(config.PARTICIPANTS)}
    /\ \A j \in 1..Len(emailed) : emailed[j].santee \in Names(santas)
    /\ Len(emailed) \in {0, Len(config.PARTICIPANTS)}
    /\ pc = "error" => (printed = <<>> /\ emailed = <<>>)

\* C6: every list create_santas returns to main, every printed line and
\* every email names a recipient; an iteration of main that ends in an
\* exception has printed and emailed nothing, and the step that raises out
\* of main prints and emails nothing.
C6_NoPartialAssignment ==
    /\ []EmittedComplete
    /\ [][pc' = "error" => UNCHANGED <<printed, emailed>>]_vars

\* the tries ran out on a list with recipients left by the last attempt,
\* and nothing was printed or emailed
C6_Witness ==
    /\ Exhausted
    /\ santas[1].santee # 0
    /\ printed = <<>>
    /\ emailed = <<>>

----------------------------------------------------------------------------
(* C7 *)

\* the configuration [Alice, Bob, Carol] without DONT_PAIR groups
ThreeFree == [PARTICIPANTS |-> SubSeq(Roster, 1, 3), DONT_PAIR |-> <<>>]

\* no Santa of the list is its own santee
NoSelf(list) ==
    \A i \in 1..Len(list) :
        list[i].santee # 0 => (list[i].santee # i /\ Recipient(list, i) # list[i].name)

\* C7 as stated: with [Alice, Bob, Carol] and no exclusions beyond self the
\* exception of exhaustion is never reached, and no result assigns a
\* participant to themself.
C7_Original ==
    config = ThreeFree =>
        /\ pc # "error"
        /\ Returned => NoSelf(santas)

\* C7 amended: with [Alice, Bob, Carol] an attempt fails exactly by Alice
\* drawing Bob and Bob drawing Alice, which leaves Carol without a candidate;
\* the run raises only when all of the tries attempts failed so, and every
\* run that succeeds does so within tries attempts, with a complete result
\* in which nobody is assigned to themself.
C7_ThreeSucceedUnlessAllDeadEnd ==
    config = ThreeFree =>
        /\ attempts <= tries
        /\ ex # NoException => ex = CouldNotFindSantee(Carol)
        /\ (pc = "inner_wrapper" /\ attempts >= 1) =>
              /\ Recipient(santas, 1) = Bob
              /\ Recipient(santas, 2) = Alice
              /\ santas[3].santee = 0
        /\ pc = "error" => Exhausted /\ raised = CouldNotFindSantee(Carol)
        /\ Returned => Complete(santas) /\ NoSelf(santas)

\* [Alice, Bob, Carol] got an assignment in the last of the tries attempts
C7_Witness ==
    /\ config = ThreeFree
    /\ pc = "raw_input"
    /\ attempts = tries
    /\ NoSelf(santas)

----------------------------------------------------------------------------
(* C8 *)

\* C8: with [Alice, Bob, Carol, Dave] and 'Alice, Bob' every participant
\* whose turn it is finds a candidate, so no attempt reaches a dead end, the
\* first attempt is the only one and the run never raises; and in every list
\* returned Alice's recipient is not Bob and Bob's is not Alice.
C8_FourWithPairSucceeds ==
    config = FourWithPair =>
        /\ pc # "error"
        /\ ex = NoException
        /\ attempts <= 1
        /\ pc = "inner_wrapper" => attempts = 0
        /\ (pc = "assign_santees" /\ idx <= Len(santas)) =>
              candidates(santas[idx], santees, santas) # <<>>
        /\ Returned =>
              /\ Complete(santas)
              /\ RecipientOf(santas, Alice) # Bob
              /\ RecipientOf(santas, Bob) # Alice

\* a list was returned for [Alice, Bob, Carol, Dave] with 'Alice, Bob'
C8_Witness ==
    /\ config = FourWithPair
    /\ pc = "raw_input"
    /\ RecipientOf(santas, Alice) = Carol
    /\ RecipientOf(santas, Bob) = Dave

----------------------------------------------------------------------------
(* C9 *)

\* the lists one call of assign_santees can end its loop with, over all the
\* choices random.choice can make, from Santa i on with the given pool; an
\* iteration without candidates contributes none
RECURSIVE attempt_outcomes(_, _, _)
attempt_outcomes(list, i, pool) ==
    IF i > Len(list) THEN {list}
    ELSE UNION {attempt_outcomes([list EXCEPT ![i].santee = c], i + 1, remove(pool, c)) :
                   c \in Range(candidates(list[i], pool, list))}

\* the lists a successful attempt on the given Santas can produce
Outcomes(list) == attempt_outcomes(list, 1, deepcopy(list))

\* some successful attempt on the list gives the Santa called p the santee q
Possible(list, p, q) == \E o \in Outcomes(list) : RecipientOf(o, p) = q

\* the ordered pairs of distinct participants of the four
FourPairs ==
    {pq \in {Alice, Bob, Carol, Dave} \X {Alice, Bob, Carol, Dave} : pq[1] # pq[2]}

\* C9 as stated: with [Alice, Bob, Carol, Dave] and 'Alice, Bob', every
\* ordered pair of distinct participants other than (Alice, Bob) and
\* (Bob, Alice) is the pairing of some successful run.
C9_Original ==
    (config = FourWithPair /\ pc = "inner_wrapper" /\ attempts = 0) =>
        \A pq \in FourPairs \ {<<Alice, Bob>>, <<Bob, Alice>>} :
            Possible(santas, pq[1], pq[2])

\* C9 amended: with [Alice, Bob, Carol, Dave] and 'Alice, Bob', Alice and
\* Bob take Carol and Dave between them, so Carol and Dave are never paired
\* with each other either; every ordered pair of distinct participants other
\* than (Alice, Bob), (Bob, Alice), (Carol, Dave) and (Dave, Carol) is the
\* pairing of some successful run, and every list returned is one of those
\* outcomes.
C9_PossiblePairings ==
    config = FourWithPair =>
        /\ (pc = "inner_wrapper" /\ attempts = 0) =>
              \A pq \in FourPairs :
                  Possible(santas, pq[1], pq[2]) <=>
                      pq \notin {<<Alice, Bob>>, <<Bob, Alice>>,
                                 <<Carol, Dave>>, <<Dave, Carol>>}
        /\ Returned =>
              /\ santas \in Outcomes(build_santas(config))
              /\ RecipientOf(santas, Carol) \in {Alice, Bob}
              /\ RecipientOf(santas, Dave) \in {Alice, Bob}

\* a returned list for the four that pairs Carol with Bob, Dave with Alice
\* and Alice with Dave
C9_Witness ==
    /\ config = FourWithPair
    /\ pc = "raw_input"
    /\ RecipientOf(santas, Carol) = Bob
    /\ RecipientOf(santas, Dave) = Alice
    /\ RecipientOf(santas, Alice) = Dave

----------------------------------------------------------------------------
(* C10 *)

\* name stands in the group string as one of its comma-separated entries,
\* with nothing but blanks between it and the commas or ends around it
Appears(name, group) ==
    \E i \in 1..Len(group), j \in 1..Len(group) :
        /\ i <= j
        /\ SubSeq(group, i, j) = name
        /\ \E k \in 0..(i - 1) :
              /\ k = 0 \/ group[k] = ","
              /\ \A m \in (k + 1)..(i - 1) : group[m] = " "
        /\ \E k \in (j + 1)..(Len(group) + 1) :
              /\ k = Len(group) + 1 \/ group[k] = ","
              /\ \A m \in (j + 1)..(k - 1) : group[m] = " "

\* the two names appear together in some DONT_PAIR group
PairedInConfig(a, b) ==
    \E g \in 1..Len(config.DONT_PAIR) :
        Appears(a, config.DONT_PAIR[g]) /\ Appears(b, config.DONT_PAIR[g])

\* C10: once create_santas has built the Santas, two participants named
\* together in a DONT_PAIR group have each other's name in invalid_matches,
\* and a participant named in no group together with a participant of another
\* name does not have that name in invalid_matches.
C10_SymmetricExpansion ==
    santas # <<>> =>
        \A a, b \in 1..Len(santas) :
            /\ PairedInConfig(santas[a].name, santas[b].name) =>
                  /\ santas[b].name \in Range(santas[a].invalid_matches)
                  /\ santas[a].name \in Range(santas[b].invalid_matches)
            /\ (santas[a].name # santas[b].name
                    /\ ~PairedInConfig(santas[a].name, santas[b].name)) =>
                  santas[b].name \notin Range(santas[a].invalid_matches)

\* the Santas were built from two groups: Alice and Bob exclude each other,
\* Carol and Dave exclude each other, Alice does not exclude Carol
C10_Witness ==
    /\ pc = "inner_wrapper"
    /\ attempts = 0
    /\ Len(santas) = 4
    /\ Len(config.DONT_PAIR) = 2
    /\ Bob \in Range(santas[1].invalid_matches)
    /\ Alice \in Range(santas[2].invalid_matches)
    /\ Dave \in Range(santas[3].invalid_matches)
    /\ Carol \in Range(santas[4].invalid_matches)
    /\ Carol \notin Range(santas[1].invalid_matches)

----------------------------------------------------------------------------
(* C11 *)

\* C11 compares two runs of assign_santees that draw the same random numbers.
\* random.choice is the only source of choice in an attempt; it is the
\* existential quantifier of AssignSantee here, and every other step has
\* one successor. A property of pairs of behaviours is no property of one
\* behaviour, so no formula is given for C11.

----------------------------------------------------------------------------
(* C12 *)

\* the exception the latest failed attempt raised, read off the list
LastFailure == CouldNotFindSantee(santas[FirstUnassigned(santas)].name)

\* C12: inner_wrapper makes a further attempt only after an attempt that
\* raised SecretSantaException; once an attempt has returned, no further
\* attempt is made and the list stays as that attempt left it; between
\* attempts ex is the exception of the latest failed attempt; the exception
\* leaves inner_wrapper only after all tries attempts raised, and it is the
\* exception of the last of them.
C12_FirstSuccessOrLastException ==
    /\ []((pc = "inner_wrapper" /\ attempts >= 1) =>
              IsDeadEnd(ex) /\ ex = LastFailure)
    /\ [](Returned => attempts \in 1..tries /\ Complete(santas))
    /\ [](Exhausted => raised = ex /\ raised = LastFailure)
    /\ [][attempts' = attempts + 1 =>
              /\ pc = "inner_wrapper"
              /\ attempts = 0 \/ (IsDeadEnd(ex) /\ LeftByFailure(santas))]_vars
    /\ [][Returned => attempts' = attempts /\ santas' = santas]_vars
    /\ [][(pc = "inner_wrapper" /\ pc' = "error") =>
              attempts = tries /\ raised' = ex]_vars

\* the third attempt was the first that did not raise: create_santas
\* returned after it, and the second attempt had failed at Dave
C12_Witness ==
    /\ pc = "raw_input"
    /\ attempts = 3
    /\ ex = CouldNotFindSantee(Dave)

----------------------------------------------------------------------------
(* C13 *)

\* the configuration names fewer than two participants
TooFew == Len(config.PARTICIPANTS) < 2

\* C13: for a configuration with fewer than 2 participants the program goes
\* from main straight to the error 'Not enough participants specified': no
\* Santas are built, no attempt is counted, no pool is copied, nothing is
\* printed or sent; once raised, the error is final, and it is raised for no
\* other configuration.
C13_TooFewRejected ==
    /\ [](TooFew =>
              /\ pc \in {"main", "error"}
              /\ pc = "error" => raised = NotEnoughParticipants
              /\ santas = <<>> /\ santees = <<>> /\ idx = 0
              /\ attempts = 0 /\ ex = NoException
              /\ printed = <<>> /\ emailed = <<>>)
    /\ [](raised = NotEnoughParticipants => TooFew)
    /\ [][(TooFew /\ pc = "main") => pc' = "error"]_vars
    /\ [][(TooFew /\ pc = "error") => UNCHANGED vars]_vars

\* the configuration with the one participant Alice was rejected
C13_Witness ==
    /\ Len(config.PARTICIPANTS) = 1
    /\ pc = "error"
    /\ raised = NotEnoughParticipants
    /\ attempts = 0

----------------------------------------------------------------------------
(* C14 *)

\* create_santas has called assign_santees and inner_wrapper has not made
\* its first attempt yet
EngineCalled == pc = "inner_wrapper" /\ attempts = 0

\* the call has ended: the list was returned complete, or the exception of
\* the last attempt left inner_wrapper
EngineEnded ==
    \/ pc = "raw_input" /\ Complete(santas)
    \/ Exhausted /\ IsDeadEnd(raised)

InitEngine == Start(InfeasibleConfigs \cup {FourWithPair, ThreeFree})

\* the program started on a configuration of one of the three kinds of call:
\* no attempt can succeed (the infeasible ones), no attempt can fail (the
\* four with 'Alice, Bob'), an attempt can do either (the three without
\* DONT_PAIR); and running on by itself
EngineSpec == InitEngine /\ [][Next]_vars /\ WF_vars(Step)

\* the picks made so far in the running attempt
Picks == Len(santas) - Len(santees)

\* C14: every call of assign_santees ends, in a returned complete list or in
\* the exception raised after the last attempt; when it has ended, between 1
\* and tries (100) attempts were made; an attempt is the attempts-th of at
\* most tries, every pick of it moves the loop to the next participant, and
\* it never holds more picks than participants.
C14_EngineTerminates ==
    /\ EngineCalled ~> EngineEnded
    /\ [](attempts \in 0..tries)
    /\ []((Returned \/ Exhausted) => attempts \in 1..tries)
    /\ [](pc = "assign_santees" =>
              /\ attempts \in 1..tries
              /\ idx \in 1..(Len(santas) + 1)
              /\ Picks = idx - 1
              /\ Picks <= Len(santas))
    /\ [][(pc = "assign_santees" /\ santees' # santees) =>
              /\ idx' = idx + 1
              /\ Len(santees') = Len(santees) - 1]_vars

\* the hundredth attempt was the first to succeed
C14_Witness ==
    /\ pc = "raw_input"
    /\ attempts = tries
    /\ Complete(santas)
    /\ IsDeadEnd(ex)

----------------------------------------------------------------------------
(* C15 *)

\* Alice drew Bob and Bob drew Alice in the running attempt, and it is
\* Carol's turn
CarolLeftOver ==
    /\ pc = "assign_santees"
    /\ idx = 3
    /\ Recipient(santas, 1) = Bob
    /\ Recipient(santas, 2) = Alice

\* C15: with [Alice, Bob, Carol] and no DONT_PAIR a valid assignment exists,
\* and yet after the choices Alice -> Bob, Bob -> Alice the pool holds Carol
\* alone, Carol has no candidate and the attempt fails at her; every attempt
\* that fails is this one.
C15_GreedyDeadEnd ==
    config = ThreeFree =>
        /\ santas # <<>> => Feasible(santas)
        /\ CarolLeftOver =>
              /\ santees = <<3>>
              /\ candidates(santas[3], santees, santas) = <<>>
              /\ ENABLED DeadEnd
              /\ ~ENABLED AssignSantee
        /\ (pc = "inner_wrapper" /\ attempts >= 1) =>
              /\ ex = CouldNotFindSantee(Carol)
              /\ santas[3].santee = 0
              /\ Recipient(santas, 1) = Bob
              /\ Recipient(santas, 2) = Alice
              /\ santees = <<3>>

\* the first attempt on [Alice, Bob, Carol] failed at Carol, although some
\* assignment of the three is valid
C15_Witness ==
    /\ config = ThreeFree
    /\ pc = "inner_wrapper"
    /\ attempts = 1
    /\ ex = CouldNotFindSantee(Carol)
    /\ santees = <<3>>
    /\ Feasible(santas)

----------------------------------------------------------------------------
(* C16 *)

\* the Santas are in the order of PARTICIPANTS
InputOrder ==
    santas # <<>> =>
        /\ Len(santas) = Len(config.PARTICIPANTS)
        /\ \A i \in 1..Len(santas) :
              santas[i].name = parse_name_and_email(config.PARTICIPANTS[i]).name

\* the loop of assign_santees is at a Santa that has no candidate in the pool
NoCandidate ==
    /\ pc = "assign_santees"
    /\ idx <= Len(santas)
    /\ candidates(santas[idx], santees, santas) = <<>>

\* C16: the Santas stand in the order of PARTICIPANTS and the loop takes
\* them in that order, one position per pick, writing the santee of the
\* Santa at its position only; every Santa before the position has a santee
\* of this attempt; at a Santa without a candidate the very next step ends
\* the attempt: the exception names that Santa, the pool and the position
\* stay as they are and no later Santa's santee is written.
C16_FailsAtFirstEmpty ==
    /\ []InputOrder
    /\ [](pc = "assign_santees" =>
              \A j \in 1..(idx - 1) :
                  santas[j].santee # 0 /\ santas[j].santee \notin Range(santees))
    /\ [][(pc = "assign_santees" /\ idx <= Len(santas)) =>
              /\ \A j \in 1..Len(santas) : j # idx => santas'[j] = santas[j]
              /\ pc' = "assign_santees" => idx' = idx + 1]_vars
    /\ [][NoCandidate =>
              /\ pc' = "inner_wrapper"
              /\ ex' = CouldNotFindSantee(santas[idx].name)
              /\ santas'[idx].santee = 0
              /\ santees' = santees
              /\ idx' = idx
              /\ \A j \in (idx + 1)..Len(santas) :
                    santas'[j].santee = santas[j].santee]_vars

\* an attempt on four participants failed at the third: the pool still holds
\* the two entries the failing step found, and the fourth has no santee
C16_Witness ==
    /\ pc = "inner_wrapper"
    /\ attempts = 1
    /\ Len(santas) = 4
    /\ idx = 3
    /\ ex = CouldNotFindSantee(santas[3].name)
    /\ Len(santees) = 2
    /\ santas[4].santee = 0

----------------------------------------------------------------------------
(* C17 *)

\* the santees given so far in the running attempt
Chosen == {santas[j].santee : j \in 1..(idx - 1)}

\* the names of the entries of the pool
PoolNames == {NameOf(santas, santees[p]) : p \in 1..Len(santees)}

\* the names of the santees given so far in the running attempt
ChosenNames == {NameOf(santas, c) : c \in Chosen}

\* C17: during an attempt, after k Santas were given a santee the pool holds
\* n - k entries, all different; the k santees are different entries, none
\* of them is in the pool, and pool and santees together are all the
\* entries; with unique names the same holds of the names: pool names and
\* santee names are disjoint and together the participants' names. Every
\* pick takes an entry of the pool as it was and the pool loses exactly that
\* entry. When the loop has passed the last Santa the pool is empty.
C17_PoolInvariant ==
    /\ [](pc = "assign_santees" =>
              /\ Len(santees) = Len(santas) - (idx - 1)
              /\ Cardinality(Range(santees)) = Len(santees)
              /\ Cardinality(Chosen) = idx - 1
              /\ Chosen \cap Range(santees) = {}
              /\ Chosen \cup Range(santees) = 1..Len(santas)
              /\ UniqueNames(santas) =>
                    /\ PoolNames \cap ChosenNames = {}
                    /\ PoolNames \cup ChosenNames = Names(santas)
              /\ idx > Len(santas) => santees = <<>>)
    /\ [][(pc = "assign_santees" /\ idx' = idx + 1) =>
              /\ santas'[idx].santee \in Range(santees)
              /\ Range(santees') = Range(santees) \ {santas'[idx].santee}
              /\ Len(santees') = Len(santees) - 1]_vars

\* a second attempt on four uniquely named participants has given all four
\* a santee and emptied the pool
C17_Witness ==
    /\ pc = "assign_santees"
    /\ attempts = 2
    /\ UniqueNames(santas)
    /\ Len(santas) = 4
    /\ idx = 5
    /\ santees = <<>>

----------------------------------------------------------------------------
(* C18 *)

\* the names a participant or an entry of invalid_matches may have here
SomeNames == {Alice, Bob, Carol}

\* lists of up to two names, as the invalid_matches argument of SecretSanta
SuppliedMatches ==
    {<<>>} \cup {<<a>> : a \in SomeNames}
           \cup {<<a, b>> : a \in SomeNames, b \in SomeNames}

\* the Santa has its own name in its invalid_matches
SelfExcluded(santa) == santa.name \in Range(santa.invalid_matches)

\* the Santas have the names, emails and invalid_matches create_santas
\* constructed them with
AsConstructed ==
    santas # <<>> =>
        LET built == build_santas(config)
        IN  /\ Len(santas) = Len(built)
            /\ \A i \in 1..Len(santas) :
                  /\ santas[i].name = built[i].name
                  /\ santas[i].email = built[i].email
                  /\ santas[i].invalid_matches = built[i].invalid_matches

\* a step leaves the name and the invalid_matches of every Santa alone
IdentityKept ==
    /\ Len(santas') = Len(santas)
    /\ \A i \in 1..Len(santas) : santas'[i].name = santas[i].name
    /\ \A i \in 1..Len(santas) :
          santas'[i].invalid_matches = santas[i].invalid_matches

\* C18: every Santa of the list has its own name in its invalid_matches, in
\* every state; the constructor puts it there whatever list it is given,
\* one that lacks the name included; and no step of inner_wrapper or
\* assign_santees changes the name, the email or the invalid_matches of a
\* Santa, which stay as they were constructed.
C18_SelfExcluded ==
    /\ [](\A i \in 1..Len(santas) : SelfExcluded(santas[i]))
    /\ [](\A name \in SomeNames : \A given \in SuppliedMatches :
              SelfExcluded(SecretSanta(name, <<>>, given)))
    /\ []AsConstructed
    /\ [][(pc = "inner_wrapper" \/ pc = "assign_santees") => IdentityKept]_vars

\* a list of four with a DONT_PAIR group was returned: Alice excludes Bob
\* and herself, and Carol, named in no group, herself alone
C18_Witness ==
    /\ pc = "raw_input"
    /\ Len(santas) = 4
    /\ Range(santas[1].invalid_matches) = {Alice, Bob}
    /\ santas[3].invalid_matches = <<Carol>>
    /\ Complete(santas)

----------------------------------------------------------------------------
(* C19 *)

\* the list with every santee attribute reset to None
Unset(list) == [i \in 1..Len(list) |-> [list[i] EXCEPT !.santee = 0]]

\* a pick of the running attempt: the loop moves on by one Santa
Pick == pc = "assign_santees" /\ idx' = idx + 1

\* C19: a list returned after one or more failed attempts is complete and is
\* a list a single attempt on freshly constructed Santas can produce; every
\* pick overwrites the santee of the Santa at its position, whatever it was,
\* with a candidate out of this attempt's pool, so that at the end of the
\* loop every santee is one of this attempt; and the candidates of a Santa
\* are the same as if every santee attribute had been reset before.
C19_FinalAttemptOnly ==
    /\ []((Returned /\ attempts > 1) =>
              /\ Complete(santas)
              /\ santas \in Outcomes(build_santas(config)))
    /\ []((pc = "assign_santees" /\ idx <= Len(santas)) =>
              candidates(santas[idx], santees, santas)
                  = candidates(Unset(santas)[idx], santees, Unset(santas)))
    /\ []((pc = "assign_santees" /\ idx > Len(santas)) =>
              /\ Chosen = 1..Len(santas)
              /\ santas \in Outcomes(Unset(santas)))
    /\ [][Pick => santas'[idx].santee
                      \in Range(candidates(santas[idx], santees, santas))]_vars

\* the second attempt on [Alice, Bob, Carol] succeeded: Alice, who held Bob
\* from the failed first attempt, has Carol
C19_Witness ==
    /\ config = ThreeFree
    /\ pc = "raw_input"
    /\ attempts = 2
    /\ Recipient(santas, 1) = Carol
    /\ Recipient(santas, 2) = Alice
    /\ Recipient(santas, 3) = Bob

----------------------------------------------------------------------------
(* C20 *)

\* the emails of the list main holds: one per Santa, in the order of the
\* list, to the Santa's address, naming the Santa and its santee
EmailsOf(list) ==
    [i \in 1..Len(list) |->
        [receiver |-> list[i].email,
         santa |-> list[i].name,
         santee |-> Recipient(list, i)]]

\* emails were sent: main is past its loop with the reply 'y', the flag is
\* set, and the emails are those of the complete list that was printed
\* before the prompt
SentForConfirmed ==
    emailed # <<>> =>
        /\ pc = "exit"
        /\ send_emails
        /\ reply = "y"
        /\ Complete(santas)
        /\ Len(santas) = Len(config.PARTICIPANTS)
        /\ printed = [i \in 1..Len(santas) |-> str(santas, i)]
        /\ emailed = EmailsOf(santas)

\* main leaves its loop on 'y' only, with the list it prompted for
LeavesLoop ==
    (pc # "send_emails" /\ pc' = "send_emails") =>
        /\ pc = "raw_input"
        /\ reply' = "y"
        /\ Complete(santas)
        /\ santas' = santas
        /\ printed' = printed

\* any other reply is followed by a new call of create_santas, which
\* constructs the Santas anew
Rejected ==
    /\ (pc = "raw_input" /\ reply' # "y") =>
          pc' = "create_santas" /\ emailed' = emailed /\ printed' = <<>>
    /\ (pc = "create_santas" /\ reply = "n") =>
          /\ pc' = "inner_wrapper"
          /\ santas' = build_santas(config)
          /\ AllUnset(santas')
          /\ attempts' = 0
          /\ emailed' = <<>>

\* C20: emails are sent only by the step after the loop of main, only with
\* the send-emails flag, only after the reply 'y' to the prompt for a
\* complete list, which is the list printed before the prompt; they are one
\* per participant in participant order, each naming the participant's
\* recipient in that list; without the flag nothing is sent; a reply other
\* than 'y' sends nothing and is followed by a create_santas call that
\* constructs all Santas anew, without recipients.
C20_EmailsAfterConfirmation ==
    /\ []SentForConfirmed
    /\ []((pc = "exit" /\ send_emails) => emailed # <<>>)
    /\ []((pc = "exit" /\ ~send_emails) => emailed = <<>>)
    /\ []((pc = "send_emails" \/ pc = "exit") => reply = "y")
    /\ [][emailed' # emailed =>
              pc = "send_emails" /\ send_emails /\ emailed = <<>>]_vars
    /\ [][LeavesLoop]_vars
    /\ [][Rejected]_vars

\* a list of four was confirmed with 'y' and its four emails were sent, the
\* first to Alice naming her recipient, the last to Dave
C20_Witness ==
    /\ pc = "exit"
    /\ send_emails
    /\ reply = "y"
    /\ Len(emailed) = 4
    /\ emailed[1].santa = Alice
    /\ emailed[1].santee = Recipient(santas, 1)
    /\ emailed[4].santa = Dave

====
